---- MODULE Spec2Model ----
(***************************************************************************)
(* Model of go-fiscobcos: header identity (Header.Hash / rlpHash) and the  *)
(* channel correlation sequences (GenMsgSeq / GenZeroSeq), the frame-type  *)
(* table, the block nonce and the typed wrappers of the RPC client.         *)
(*                                                                         *)
(* Byte strings are sequences over 0..255.  Text strings are sequences of  *)
(* one-character strings.  A digest is kept symbolically: the sponge's     *)
(* padding byte, its output length and the bytes it absorbed.              *)
(***************************************************************************)
EXTENDS Integers, Sequences, FiniteSets, TLC

VARIABLES h, ret, pc, uid, out, issued, calls, srcFailed, frames,
          nInt, nBytes, nBack, nPhase, lastCall, prevCall

vars == <<h, ret, pc, uid, out, issued, calls, srcFailed, frames,
          nInt, nBytes, nBack, nPhase, lastCall, prevCall>>

headerVars == <<h, ret>>

seqVars == <<pc, uid, out, issued, calls, srcFailed>>

frameVars == <<frames>>

nonceVars == <<nInt, nBytes, nBack, nPhase>>

clientVars == <<lastCall, prevCall>>

\* the caller holds no value of Hash for the header
NoHash == [len |-> 0, digestLen |-> 0, pad |-> 0, msg |-> <<>>]

(* ------------------------------ bounds -------------------------------- *)

\* how many fields the second header may differ in from the first
MaxDiff == 2

\* how many calls each caller of the sequence generator makes
MaxCalls == 2

\* how many callers use the sequence generator at once
NumCallers == 2

\* how many frames are tagged or classified in one run
MaxFrames == 2

(* ----------------------------- byte helpers --------------------------- *)

Byte == 0..255

Fill(n, b) == [k \in 1..n |-> b]

HashLength == 32

AddressLength == 20

BloomByteLength == 256

NonceLength == 8

\* big-endian bytes of a natural number without leading zero bytes
RECURSIVE MinimalBE(_)
MinimalBE(i) == IF i = 0 THEN <<>> ELSE MinimalBE(i \div 256) \o <<i % 256>>

(* ------------------------- canonical encoder -------------------------- *)

\* length prefix of a string (offset 128) or of a list (offset 192)
EncodeLength(n, offset) ==
    IF n < 56
    THEN <<offset + n>>
    ELSE <<offset + 55 + Len(MinimalBE(n))>> \o MinimalBE(n)

\* a byte string: itself when a single byte below 128, else length-prefixed
EncString(b) ==
    IF Len(b) = 1 /\ b[1] < 128 THEN b ELSE EncodeLength(Len(b), 128) \o b

\* a list: the concatenated encodings of its elements behind a length prefix
EncList(payload) == EncodeLength(Len(payload), 192) \o payload

\* big-endian bytes of a natural number in exactly n bytes
RECURSIVE FixedBE(_, _)
FixedBE(i, n) == IF n = 0 THEN <<>> ELSE FixedBE(i \div 256, n - 1) \o <<i % 256>>

\* an encoder that writes unsigned integers in their full 8-byte width
EncodeValueFixedWidth(kind, v) ==
    CASE kind = "bytes"  -> [err |-> FALSE, out |-> EncString(v)]
      [] kind = "uint"   -> [err |-> FALSE, out |-> EncString(FixedBE(v, 8))]
      [] kind = "bigint" -> IF v < 0
                            THEN [err |-> TRUE, out |-> <<>>]
                            ELSE [err |-> FALSE, out |-> EncString(MinimalBE(v))]

\* one field by its Go type; a negative big integer is refused
EncodeValue(kind, v) ==
    CASE kind = "bytes"  -> [err |-> FALSE, out |-> EncString(v)]
      [] kind = "uint"   -> [err |-> FALSE, out |-> EncString(MinimalBE(v))]
      [] kind = "bigint" -> IF v < 0
                            THEN [err |-> TRUE, out |-> <<>>]
                            ELSE [err |-> FALSE, out |-> EncString(MinimalBE(v))]

(* ------------------------------- Header ------------------------------- *)

\* the variant of the struct that hides one field from the encoder
HeaderFieldsOmitMix ==
    << [name |-> "ParentHash",  kind |-> "bytes"],
       [name |-> "UncleHash",   kind |-> "bytes"],
       [name |-> "Coinbase",    kind |-> "bytes"],
       [name |-> "Root",        kind |-> "bytes"],
       [name |-> "TxHash",      kind |-> "bytes"],
       [name |-> "ReceiptHash", kind |-> "bytes"],
       [name |-> "Bloom",       kind |-> "bytes"],
       [name |-> "Difficulty",  kind |-> "bigint"],
       [name |-> "Number",      kind |-> "bigint"],
       [name |-> "GasLimit",    kind |-> "uint"],
       [name |-> "GasUsed",     kind |-> "uint"],
       [name |-> "Time",        kind |-> "uint"],
       [name |-> "Extra",       kind |-> "bytes"],
       [name |-> "RandomId",    kind |-> "bytes"] >>

\* the variant of the struct that declares TxHash and ReceiptHash the other way round
HeaderFieldsSwapped ==
    << [name |-> "ParentHash",  kind |-> "bytes"],
       [name |-> "UncleHash",   kind |-> "bytes"],
       [name |-> "Coinbase",    kind |-> "bytes"],
       [name |-> "Root",        kind |-> "bytes"],
       [name |-> "ReceiptHash", kind |-> "bytes"],
       [name |-> "TxHash",      kind |-> "bytes"],
       [name |-> "Bloom",       kind |-> "bytes"],
       [name |-> "Difficulty",  kind |-> "bigint"],
       [name |-> "Number",      kind |-> "bigint"],
       [name |-> "GasLimit",    kind |-> "uint"],
       [name |-> "GasUsed",     kind |-> "uint"],
       [name |-> "Time",        kind |-> "uint"],
       [name |-> "Extra",       kind |-> "bytes"],
       [name |-> "MixDigest",   kind |-> "bytes"],
       [name |-> "RandomId",    kind |-> "bytes"] >>

\* the exported fields of Header in declaration order, with the encoder's
\* view of each Go type
HeaderFields ==
    << [name |-> "ParentHash",  kind |-> "bytes"],
       [name |-> "UncleHash",   kind |-> "bytes"],
       [name |-> "Coinbase",    kind |-> "bytes"],
       [name |-> "Root",        kind |-> "bytes"],
       [name |-> "TxHash",      kind |-> "bytes"],
       [name |-> "ReceiptHash", kind |-> "bytes"],
       [name |-> "Bloom",       kind |-> "bytes"],
       [name |-> "Difficulty",  kind |-> "bigint"],
       [name |-> "Number",      kind |-> "bigint"],
       [name |-> "GasLimit",    kind |-> "uint"],
       [name |-> "GasUsed",     kind |-> "uint"],
       [name |-> "Time",        kind |-> "uint"],
       [name |-> "Extra",       kind |-> "bytes"],
       [name |-> "MixDigest",   kind |-> "bytes"],
       [name |-> "RandomId",    kind |-> "bytes"] >>


\* the values a field is given when a header is built
FieldValues(name) ==
    CASE name \in {"ParentHash", "UncleHash", "Root", "TxHash", "ReceiptHash", "MixDigest"}
            -> {Fill(HashLength, 0), Fill(HashLength, 1)}
      [] name = "Coinbase"   -> {Fill(AddressLength, 0), Fill(AddressLength, 1)}
      [] name = "Bloom"      -> {Fill(BloomByteLength, 0), Fill(BloomByteLength, 1)}
      [] name = "RandomId"   -> {Fill(NonceLength, 0), Fill(NonceLength, 1)}
      [] name \in {"Difficulty", "Number"} -> {-1, 0, 1, 128, 256}
      [] name \in {"GasLimit", "GasUsed", "Time"} -> {0, 1, 128, 256}
      [] name = "Extra"      -> {<<>>, <<0>>, <<127>>, <<128>>, <<1, 0>>}

\* the header of the concrete scenario: every field zero or empty
ZeroHeader ==
    [ParentHash |-> Fill(HashLength, 0), UncleHash |-> Fill(HashLength, 0),
     Coinbase |-> Fill(AddressLength, 0), Root |-> Fill(HashLength, 0),
     TxHash |-> Fill(HashLength, 0), ReceiptHash |-> Fill(HashLength, 0),
     Bloom |-> Fill(BloomByteLength, 0), Difficulty |-> 0, Number |-> 0,
     GasLimit |-> 0, GasUsed |-> 0, Time |-> 0, Extra |-> <<>>,
     MixDigest |-> Fill(HashLength, 0), RandomId |-> Fill(NonceLength, 0)]

\* a header whose neighbouring fields hold different values
SampleHeader ==
    [ParentHash |-> Fill(HashLength, 1), UncleHash |-> Fill(HashLength, 0),
     Coinbase |-> Fill(AddressLength, 1), Root |-> Fill(HashLength, 1),
     TxHash |-> Fill(HashLength, 0), ReceiptHash |-> Fill(HashLength, 1),
     Bloom |-> Fill(BloomByteLength, 0), Difficulty |-> 1, Number |-> 256,
     GasLimit |-> 128, GasUsed |-> 1, Time |-> 256, Extra |-> <<1, 0>>,
     MixDigest |-> Fill(HashLength, 0), RandomId |-> Fill(NonceLength, 1)]

\* a header outside the legal range
NegativeHeader == [SampleHeader EXCEPT !.Number = -1]

BaseHeaders == {ZeroHeader, SampleHeader, NegativeHeader}

FieldNames == DOMAIN ZeroHeader

\* number of fields in which two headers differ
Diff(a, b) == Cardinality({f \in FieldNames : a[f] # b[f]})

\* difficulty and number inside the legal range
Legal(x) == x.Difficulty >= 0 /\ x.Number >= 0

(* --------------------------- encoding a header ------------------------ *)

\* the struct encoder: every field in order; the first refusal aborts
RECURSIVE EncodeFields(_, _, _)
EncodeFields(x, fields, k) ==
    IF k > Len(fields)
    THEN [err |-> FALSE, out |-> <<>>]
    ELSE LET e == EncodeValue(fields[k].kind, x[fields[k].name])
             r == EncodeFields(x, fields, k + 1)
         IN  IF e.err \/ r.err
             THEN [err |-> TRUE, out |-> <<>>]
             ELSE [err |-> FALSE, out |-> e.out \o r.out]

\* rlp.Encode on a header: nothing is produced when a field is refused
RlpEncode(x) ==
    LET p == EncodeFields(x, HeaderFields, 1)
    IN  IF p.err THEN [err |-> TRUE, out |-> <<>>]
                 ELSE [err |-> FALSE, out |-> EncList(p.out)]

(* ------------------------------- hasher ------------------------------- *)

\* the NIST SHA3-256 sponge: domain byte 0x06
New256 == [dsbyte |-> 6, outputLen |-> 32, absorbed |-> <<>>]

\* a sponge shared between calls that still holds what an earlier call absorbed
NewLegacyKeccak256Reused ==
    [dsbyte |-> 1, outputLen |-> 32,
     absorbed |-> IF ret[1] = NoHash THEN <<>> ELSE ret[1].msg]

\* the original Keccak-256 sponge: domain byte 0x01, 32 bytes out, empty
NewLegacyKeccak256 == [dsbyte |-> 1, outputLen |-> 32, absorbed |-> <<>>]

\* hw.Write
Write(s, b) == [s EXCEPT !.absorbed = @ \o b]

\* hw.Sum(h[:0]) into a common.Hash
Sum(s) == [len |-> HashLength, digestLen |-> s.outputLen, pad |-> s.dsbyte, msg |-> s.absorbed]

\* rlpHash: the encoder's error result is not looked at
rlpHash(x) ==
    LET hw0 == NewLegacyKeccak256
        e   == RlpEncode(x)
        hw1 == IF e.err THEN hw0 ELSE Write(hw0, e.out)
    IN  Sum(hw1)

(* ------------------------------ actions ------------------------------- *)

\* a caller gives one field of the second header another value
SetField(f, v) ==
    /\ v # h[2][f]
    /\ Diff(h[1], [h[2] EXCEPT ![f] = v]) <= MaxDiff
    /\ h' = [h EXCEPT ![2][f] = v]
    /\ ret' = [ret EXCEPT ![2] = NoHash]
    /\ UNCHANGED <<seqVars, frameVars, nonceVars, clientVars>>

\* Header.Hash on header i
Hash(i) ==
    /\ ret' = [ret EXCEPT ![i] = rlpHash(h[i])]
    /\ UNCHANGED <<h, seqVars, frameVars, nonceVars, clientVars>>

InitHeader ==
    /\ \E b \in BaseHeaders : h = [i \in 1..2 |-> b]
    /\ ret = [i \in 1..2 |-> NoHash]
    /\ pc = <<>> /\ uid = <<>> /\ out = <<>> /\ issued = {} /\ calls = <<>>
    /\ srcFailed = <<>>
    /\ frames = <<>>
    /\ nInt = <<>> /\ nBytes = <<>> /\ nBack = <<>> /\ nPhase = ""
    /\ lastCall = <<>> /\ prevCall = <<>>

NextHeader ==
    \/ \E f \in FieldNames : \E v \in FieldValues(f) : SetField(f, v)
    \/ \E i \in 1..2 : Hash(i)

SpecHeader == InitHeader /\ [][NextHeader]_vars

(* ------------------------------- text --------------------------------- *)

HexDigits == <<"0", "1", "2", "3", "4", "5", "6", "7",
               "8", "9", "a", "b", "c", "d", "e", "f">>

\* hex.EncodeToString: two lower-case digits per byte
RECURSIVE EncodeToString(_)
EncodeToString(b) ==
    IF b = <<>> THEN <<>>
    ELSE <<HexDigits[(b[1] \div 16) + 1], HexDigits[(b[1] % 16) + 1]>>
         \o EncodeToString(Tail(b))

\* strings.ToUpper on one character
ToUpperChar(c) ==
    CASE c = "a" -> "A" [] c = "b" -> "B" [] c = "c" -> "C" [] c = "d" -> "D"
      [] c = "e" -> "E" [] c = "f" -> "F" [] c = "x" -> "X" [] OTHER -> c

\* strings.ToUpper
ToUpper(s) == [k \in 1..Len(s) |-> ToUpperChar(s[k])]

\* strings.Split: the pieces between the separators; one piece when none
RECURSIVE Split(_, _)
Split(s, sep) ==
    IF \A k \in 1..Len(s) : s[k] # sep
    THEN <<s>>
    ELSE LET k == CHOOSE k \in 1..Len(s) :
                      s[k] = sep /\ \A j \in 1..(k - 1) : s[j] # sep
         IN  <<SubSeq(s, 1, k - 1)>> \o Split(SubSeq(s, k + 1, Len(s)), sep)

\* the loop uid += v over the pieces
RECURSIVE Join(_)
Join(parts) == IF parts = <<>> THEN <<>> ELSE parts[1] \o Join(Tail(parts))

\* value of a hex digit of either case, -1 for any other character
HexVal(c) ==
    CASE c = "0" -> 0 [] c = "1" -> 1 [] c = "2" -> 2 [] c = "3" -> 3
      [] c = "4" -> 4 [] c = "5" -> 5 [] c = "6" -> 6 [] c = "7" -> 7
      [] c = "8" -> 8 [] c = "9" -> 9
      [] c \in {"a", "A"} -> 10 [] c \in {"b", "B"} -> 11
      [] c \in {"c", "C"} -> 12 [] c \in {"d", "D"} -> 13
      [] c \in {"e", "E"} -> 14 [] c \in {"f", "F"} -> 15
      [] OTHER -> -1

\* hex.DecodeString: the bytes of the digit pairs, stopping at the first
\* character that is no digit or at a digit left over
RECURSIVE DecodeString(_)
DecodeString(s) ==
    IF s = <<>> THEN [b |-> <<>>, err |-> "nil"]
    ELSE IF HexVal(s[1]) < 0 THEN [b |-> <<>>, err |-> "ErrSyntax"]
    ELSE IF Len(s) = 1 THEN [b |-> <<>>, err |-> "ErrOddLength"]
    ELSE IF HexVal(s[2]) < 0 THEN [b |-> <<>>, err |-> "ErrSyntax"]
    ELSE LET r == DecodeString(SubSeq(s, 3, Len(s)))
         IN  [b |-> <<HexVal(s[1]) * 16 + HexVal(s[2])>> \o r.b, err |-> r.err]

has0xPrefix(s) == Len(s) >= 2 /\ s[1] = "0" /\ s[2] \in {"x", "X"}

\* hexutil.Decode
Decode(input) ==
    IF Len(input) = 0 THEN [b |-> <<>>, err |-> "ErrEmptyString"]
    ELSE IF ~has0xPrefix(input) THEN [b |-> <<>>, err |-> "ErrMissingPrefix"]
    ELSE DecodeString(SubSeq(input, 3, Len(input)))

(* ------------------------- unique-id source --------------------------- *)

\* 16 bytes as the random source can deliver them
RandPool ==
    { Fill(16, 0),
      Fill(16, 255),
      <<171, 205, 239, 1, 35, 69, 103, 137, 154, 188, 222, 240, 18, 52, 86, 120>> }

\* version 4, variant 10 stamped over the random bytes
Version4(r) ==
    [k \in 1..16 |-> IF k = 7 THEN (r[k] % 16) + 64
                     ELSE IF k = 9 THEN (r[k] % 64) + 128
                     ELSE r[k]]

\* UUID.String: 8-4-4-4-12 lower-case digits, "" when the UUID is nil
UuidString(u) ==
    IF Len(u) # 16 THEN <<>>
    ELSE EncodeToString(SubSeq(u, 1, 4)) \o <<"-">>
      \o EncodeToString(SubSeq(u, 5, 6)) \o <<"-">>
      \o EncodeToString(SubSeq(u, 7, 8)) \o <<"-">>
      \o EncodeToString(SubSeq(u, 9, 10)) \o <<"-">>
      \o EncodeToString(SubSeq(u, 11, 16))

(* -------------------------- sequence generator ------------------------ *)

Callers == 1..NumCallers

\* a literal that lost two of its digits
ZeroSeqLiteralShort ==
    <<"0", "x">> \o [k \in 1..30 |-> "0"]

\* the literal GenZeroSeq decodes
ZeroSeqLiteral ==
    <<"0", "x">> \o [k \in 1..32 |-> "0"]

\* the prefix GenMsgSeq puts in front of the digits
SeqPrefix == <<"0", "X">>

Running == \A c \in Callers : pc[c] # "panic"

\* GenMsgSeq, uuid.New(): the source delivers a UUID it has not delivered before
UuidNewOk(c) ==
    /\ Running /\ pc[c] = "idle" /\ calls[c] < MaxCalls
    /\ \E r \in RandPool :
          LET s == UuidString(Version4(r))
          IN  /\ s \notin issued
              /\ issued' = issued \cup {s}
              /\ uid' = [uid EXCEPT ![c] = s]
    /\ srcFailed' = [srcFailed EXCEPT ![c] = FALSE]
    /\ calls' = [calls EXCEPT ![c] = @ + 1]
    /\ pc' = [pc EXCEPT ![c] = "split"]
    /\ UNCHANGED <<out, headerVars, frameVars, nonceVars, clientVars>>

\* GenMsgSeq, uuid.New(): the source fails and the library hands back ""
UuidNewEmpty(c) ==
    /\ Running /\ pc[c] = "idle" /\ calls[c] < MaxCalls
    /\ uid' = [uid EXCEPT ![c] = UuidString(<<>>)]
    /\ srcFailed' = [srcFailed EXCEPT ![c] = TRUE]
    /\ calls' = [calls EXCEPT ![c] = @ + 1]
    /\ pc' = [pc EXCEPT ![c] = "split"]
    /\ UNCHANGED <<out, issued, headerVars, frameVars, nonceVars, clientVars>>

\* GenMsgSeq, uuid.New(): the source fails and the library panics
UuidNewPanic(c) ==
    /\ Running /\ pc[c] = "idle" /\ calls[c] < MaxCalls
    /\ srcFailed' = [srcFailed EXCEPT ![c] = TRUE]
    /\ calls' = [calls EXCEPT ![c] = @ + 1]
    /\ pc' = [pc EXCEPT ![c] = "panic"]
    /\ UNCHANGED <<uid, out, issued, headerVars, frameVars, nonceVars, clientVars>>

\* GenMsgSeq: split at the dashes and rebuild behind the prefix
SplitJoin(c) ==
    /\ Running /\ pc[c] = "split"
    /\ uid' = [uid EXCEPT ![c] = SeqPrefix \o Join(Split(uid[c], "-"))]
    /\ pc' = [pc EXCEPT ![c] = "decode"]
    /\ UNCHANGED <<out, issued, calls, srcFailed, headerVars, frameVars, nonceVars, clientVars>>

\* GenMsgSeq: return hexutil.Decode(strings.ToUpper(uid))
DecodeReturn(c) ==
    /\ Running /\ pc[c] = "decode"
    /\ LET d == Decode(ToUpper(uid[c]))
       IN  out' = [out EXCEPT ![c] = Append(@, [fn |-> "GenMsgSeq", b |-> d.b,
                                                 err |-> d.err,
                                                 srcFailed |-> srcFailed[c]])]
    /\ uid' = [uid EXCEPT ![c] = <<>>]
    /\ srcFailed' = [srcFailed EXCEPT ![c] = FALSE]
    /\ pc' = [pc EXCEPT ![c] = "idle"]
    /\ UNCHANGED <<issued, calls, headerVars, frameVars, nonceVars, clientVars>>

\* GenZeroSeq
GenZeroSeq(c) ==
    /\ Running /\ pc[c] = "idle" /\ calls[c] < MaxCalls
    /\ LET d == Decode(ZeroSeqLiteral)
       IN  out' = [out EXCEPT ![c] = Append(@, [fn |-> "GenZeroSeq", b |-> d.b,
                                                 err |-> d.err,
                                                 srcFailed |-> FALSE])]
    /\ calls' = [calls EXCEPT ![c] = @ + 1]
    /\ UNCHANGED <<pc, uid, issued, srcFailed, headerVars, frameVars, nonceVars, clientVars>>

InitSeq ==
    /\ pc = [c \in Callers |-> "idle"]
    /\ uid = [c \in Callers |-> <<>>]
    /\ out = [c \in Callers |-> <<>>]
    /\ calls = [c \in Callers |-> 0]
    /\ srcFailed = [c \in Callers |-> FALSE]
    /\ issued = {}
    /\ h = <<>> /\ ret = <<>>
    /\ frames = <<>>
    /\ nInt = <<>> /\ nBytes = <<>> /\ nBack = <<>> /\ nPhase = ""
    /\ lastCall = <<>> /\ prevCall = <<>>

NextSeq ==
    \/ \E c \in Callers : UuidNewOk(c)
    \/ \E c \in Callers : UuidNewEmpty(c)
    \/ \E c \in Callers : UuidNewPanic(c)
    \/ \E c \in Callers : SplitJoin(c)
    \/ \E c \in Callers : DecodeReturn(c)
    \/ \E c \in Callers : GenZeroSeq(c)

SpecSeq == InitSeq /\ [][NextSeq]_vars

(* ----------------------------- frame types ---------------------------- *)

TYPE_RPC == 18

\* a heartbeat tag typed one too high
TYPE_HEATBEAT_Off == TYPE_RPC + 2

TYPE_HEATBEAT == 19

TYPE_AMOP_REQ == 48

\* a response tag copied from the request line
TYPE_AMOP_RESP_Dup == TYPE_AMOP_REQ

TYPE_AMOP_RESP == 49

TYPE_TOPIC_REPORT == 50

TYPE_TOPIC_MULTICAST == 53

TYPE_TX_COMMITTED == 4096

TYPE_TX_BLOCKNUM == 4097

\* the const block of ChannelPack: name and value of every member
ChannelPack ==
    [TYPE_RPC |-> TYPE_RPC, TYPE_HEATBEAT |-> TYPE_HEATBEAT,
     TYPE_AMOP_REQ |-> TYPE_AMOP_REQ, TYPE_AMOP_RESP |-> TYPE_AMOP_RESP,
     TYPE_TOPIC_REPORT |-> TYPE_TOPIC_REPORT,
     TYPE_TOPIC_MULTICAST |-> TYPE_TOPIC_MULTICAST,
     TYPE_TX_COMMITTED |-> TYPE_TX_COMMITTED,
     TYPE_TX_BLOCKNUM |-> TYPE_TX_BLOCKNUM]

\* tag values that can stand on the wire
WireTags == {0, 17, 18, 19, 20, 48, 49, 50, 51, 53, 153, 4095, 4096, 4097, 4098}

\* classify a tag: the member that carries it, an error when none does
DecodeTag(w) ==
    IF \E k \in DOMAIN ChannelPack : ChannelPack[k] = w
    THEN [kind |-> CHOOSE k \in DOMAIN ChannelPack : ChannelPack[k] = w, err |-> "nil"]
    ELSE [kind |-> "", err |-> "unrecognized-frame-type"]

\* a frame is tagged with a member of the table
TagFrame(k) ==
    /\ Len(frames) < MaxFrames
    /\ frames' = Append(frames, [op |-> "tag", kind |-> k, tag |-> ChannelPack[k],
                                 err |-> "nil"])
    /\ UNCHANGED <<headerVars, seqVars, nonceVars, clientVars>>

\* the tag of a received frame is classified
ClassifyFrame(w) ==
    /\ Len(frames) < MaxFrames
    /\ LET d == DecodeTag(w)
       IN  frames' = Append(frames, [op |-> "classify", kind |-> d.kind, tag |-> w,
                                     err |-> d.err])
    /\ UNCHANGED <<headerVars, seqVars, nonceVars, clientVars>>

InitFrame ==
    /\ frames = <<>>
    /\ nInt = <<>> /\ nBytes = <<>> /\ nBack = <<>> /\ nPhase = ""
    /\ lastCall = <<>> /\ prevCall = <<>>
    /\ h = <<>> /\ ret = <<>>
    /\ pc = <<>> /\ uid = <<>> /\ out = <<>> /\ issued = {} /\ calls = <<>>
    /\ srcFailed = <<>>

NextFrame ==
    \/ \E k \in DOMAIN ChannelPack : TagFrame(k)
    \/ \E w \in WireTags : ClassifyFrame(w)

SpecFrame == InitFrame /\ [][NextFrame]_vars

(* ----------------------------- block nonce ---------------------------- *)

\* A uint64 is kept as four 16-bit limbs, most significant first.
Limbs == {0, 1, 255, 256, 4660, 65535}

Uint64Values == [1..4 -> Limbs]

NonceValues == [1..NonceLength -> {0, 1, 255}]

\* byte(v >> (8 * j)): byte j of v, counted from the least significant
ByteOf(v, j) ==
    IF j % 2 = 0 THEN v[4 - (j \div 2)] % 256 ELSE v[4 - (j \div 2)] \div 256

\* a conversion that puts the least significant byte first
EncodeNonceLittleEndian(i) == [k \in 1..NonceLength |-> ByteOf(i, k - 1)]

\* EncodeNonce: binary.BigEndian.PutUint64
EncodeNonce(i) == [k \in 1..NonceLength |-> ByteOf(i, NonceLength - k)]

\* BlockNonce.Uint64: binary.BigEndian.Uint64
Uint64(n) == [m \in 1..4 |-> n[2 * m - 1] * 256 + n[2 * m]]

\* EncodeNonce(i) is called
CallEncodeNonce(i) ==
    /\ nPhase = "start"
    /\ nInt' = i /\ nBytes' = EncodeNonce(i) /\ nBack' = <<>>
    /\ nPhase' = "enc"
    /\ UNCHANGED <<headerVars, seqVars, frameVars, clientVars>>

\* Uint64 is called on the nonce EncodeNonce returned
CallUint64OnEncoded ==
    /\ nPhase = "enc"
    /\ nBack' = Uint64(nBytes)
    /\ nPhase' = "enc-dec"
    /\ UNCHANGED <<nInt, nBytes, headerVars, seqVars, frameVars, clientVars>>

\* n.Uint64() is called
CallUint64(n) ==
    /\ nPhase = "start"
    /\ nBytes' = n /\ nInt' = Uint64(n) /\ nBack' = <<>>
    /\ nPhase' = "dec"
    /\ UNCHANGED <<headerVars, seqVars, frameVars, clientVars>>

\* EncodeNonce is called on the integer Uint64 returned
CallEncodeNonceOnDecoded ==
    /\ nPhase = "dec"
    /\ nBack' = EncodeNonce(nInt)
    /\ nPhase' = "dec-enc"
    /\ UNCHANGED <<nInt, nBytes, headerVars, seqVars, frameVars, clientVars>>

InitNonce ==
    /\ nInt = <<>> /\ nBytes = <<>> /\ nBack = <<>> /\ nPhase = "start"
    /\ lastCall = <<>> /\ prevCall = <<>>
    /\ frames = <<>>
    /\ h = <<>> /\ ret = <<>>
    /\ pc = <<>> /\ uid = <<>> /\ out = <<>> /\ issued = {} /\ calls = <<>>
    /\ srcFailed = <<>>

NextNonce ==
    \/ \E i \in Uint64Values : CallEncodeNonce(i)
    \/ CallUint64OnEncoded
    \/ \E n \in NonceValues : CallUint64(n)
    \/ CallEncodeNonceOnDecoded

SpecNonce == InitNonce /\ [][NextNonce]_vars

(* ------------------------------ RPC client ---------------------------- *)

\* the typed wrappers of Client: the helper each one calls and the remote
\* method name it passes
Wrappers ==
    [
     BlockByHash                       |-> [helper |-> "getBlock", method |-> "getBlockByHash"],
     ClientVersion                     |-> [helper |-> "getClientVersion", method |-> "getClientVersion"],
     BlockNumber                       |-> [helper |-> "getBlockNumber", method |-> "getBlockNumber"],
     SyncStatus                        |-> [helper |-> "getSyncStatus", method |-> "getSyncStatus"],
     BlockByNumber                     |-> [helper |-> "getBlockByNumber", method |-> "getBlockByNumber"],
     TotalTransactionCount             |-> [helper |-> "getTotalTransactionCount", method |-> "getTotalTransactionCount"],
     TransactionReceipt                |-> [helper |-> "getTransactionReceipt", method |-> "getTransactionReceipt"],
     TransactionByBlockNumberAndIndex  |-> [helper |-> "getTransactionByBlockNumberAndIndex", method |-> "getTransactionByBlockNumberAndIndex"],
     TransactionByBlockHashAndIndex    |-> [helper |-> "getTransactionByBlockHashAndIndex", method |-> "getTransactionByBlockHashAndIndex"],
     TransactionByHash                 |-> [helper |-> "getTransactionByHash", method |-> "getTransactionByBlockHashAndIndex"],
     PbftView                          |-> [helper |-> "getPbftView", method |-> "getPbftView"],
     BlockHashByNumber                 |-> [helper |-> "getBlockHashByNumber", method |-> "getBlockHashByNumber"],
     PendingTxSize                     |-> [helper |-> "getPendingTxSize", method |-> "getPendingTxSize"],
     Code                              |-> [helper |-> "getCode", method |-> "getCode"],
     SystemConfigByKey                 |-> [helper |-> "getSystemConfigByKey", method |-> "getSystemConfigByKey"],
     SealerList                        |-> [helper |-> "getSealerList", method |-> "getSealerList"],
     ObserverList                      |-> [helper |-> "getObserverList", method |-> "getObserverList"],
     ConsensusStatus                   |-> [helper |-> "getConsensusStatus", method |-> "getConsensusStatus"],
     Peers                             |-> [helper |-> "getPeers", method |-> "getPeers"],
     GroupPeers                        |-> [helper |-> "getGroupPeers", method |-> "getGroupPeers"],
     NodeIDList                        |-> [helper |-> "getNodeIDList", method |-> "getNodeIDList"],
     GroupList                         |-> [helper |-> "getGroupList", method |-> "getGroupList"],
     PendingTransactions               |-> [helper |-> "getPendingTransactions", method |-> "getPendingTransactions"]]

\* how a helper holds and decodes the reply
HelperShape(helper) ==
    CASE helper \in {"getClientVersion", "getBlock", "getSyncStatus",
                     "getBlockByNumber", "getTotalTransactionCount",
                     "getTransactionReceipt",
                     "getTransactionByBlockNumberAndIndex",
                     "getTransactionByBlockHashAndIndex",
                     "getTransactionByHash", "getPeers",
                     "getPendingTransactions"}      -> "json"
      [] helper = "getBlockNumber"                  -> "number"
      [] helper = "getBlockHashByNumber"            -> "hash"
      [] OTHER                                      -> "raw"

\* what CallContext can leave in raw, by the shape of the helper
RawKinds(shape) ==
    CASE shape = "json"   -> {"empty", "null", "good", "bad"}
      [] shape = "number" -> {"empty", "good", "bad"}
      [] shape = "hash"   -> {"empty", "good", "bad"}
      [] shape = "raw"    -> {"empty", "good"}

CallErrors == {"nil", "rpc error"}

\* json.Unmarshal(raw, &result) into a pointer or slice
Unmarshal(raw) ==
    CASE raw = "good" -> [res |-> "decoded", err |-> "nil"]
      [] raw = "null" -> [res |-> "nil", err |-> "nil"]
      [] OTHER        -> [res |-> "partial", err |-> "decode error"]

\* hexutil.DecodeUint64: a number, and an error when raw is no hex quantity
DecodeUint64(raw) ==
    IF raw = "good" THEN [height |-> "height", err |-> "nil"]
                    ELSE [height |-> "zero or max", err |-> "decode error"]

\* the get* helpers after CallContext returned callErr and filled raw
Helper(shape, callErr, raw) ==
    IF callErr # "nil" THEN [res |-> "nil", err |-> callErr]
    ELSE IF raw = "empty" THEN [res |-> "nil", err |-> "NotFound"]
    ELSE CASE shape = "json" ->
                LET u == Unmarshal(raw)
                IN  IF u.err # "nil" THEN [res |-> "nil", err |-> u.err]
                                     ELSE [res |-> u.res, err |-> callErr]
           [] shape = "number" ->
                LET d == DecodeUint64(raw)
                IN  [res |-> "big.Int", err |-> d.err]
           [] shape = "hash" -> [res |-> "hash", err |-> "nil"]
           [] shape = "raw"  -> [res |-> "raw", err |-> callErr]

\* no call made yet
NoCall == [wrapper |-> "", helper |-> "", sent |-> <<>>, callErr |-> "nil",
           raw |-> "empty", res |-> "nil", err |-> "nil"]

\* a typed wrapper is called; the node answers with callErr and raw
CallWrapper(w, callErr, raw) ==
    /\ raw \in RawKinds(HelperShape(Wrappers[w].helper))
    /\ LET r == Helper(HelperShape(Wrappers[w].helper), callErr, raw)
       IN  lastCall' = [wrapper |-> w, helper |-> Wrappers[w].helper,
                        sent |-> <<Wrappers[w].method>>,
                        callErr |-> callErr, raw |-> raw,
                        res |-> r.res, err |-> r.err]
    /\ prevCall' = lastCall
    /\ UNCHANGED <<headerVars, seqVars, frameVars, nonceVars>>

InitClient ==
    /\ lastCall = NoCall /\ prevCall = NoCall
    /\ nInt = <<>> /\ nBytes = <<>> /\ nBack = <<>> /\ nPhase = ""
    /\ frames = <<>>
    /\ h = <<>> /\ ret = <<>>
    /\ pc = <<>> /\ uid = <<>> /\ out = <<>> /\ issued = {} /\ calls = <<>>
    /\ srcFailed = <<>>

NextClient ==
    \E w \in DOMAIN Wrappers : \E callErr \in CallErrors :
        \E raw \in {"empty", "null", "good", "bad"} : CallWrapper(w, callErr, raw)

SpecClient == InitClient /\ [][NextClient]_vars

(* ---------------------- reading an encoding back ---------------------- *)

\* value of a big-endian byte string
RECURSIVE BEValue(_)
BEValue(b) ==
    IF b = <<>> THEN 0
    ELSE BEValue(SubSeq(b, 1, Len(b) - 1)) * 256 + b[Len(b)]

\* the bytes behind the length prefix of a list encoding
ListPayload(m) ==
    IF m = <<>> \/ m[1] < 192 THEN <<>>
    ELSE IF m[1] <= 247 THEN SubSeq(m, 2, Len(m))
    ELSE SubSeq(m, 2 + (m[1] - 247), Len(m))

\* the byte-string items of a list payload, in order
RECURSIVE Items(_)
Items(p) ==
    IF p = <<>> THEN <<>>
    ELSE IF p[1] < 128 THEN <<SubSeq(p, 1, 1)>> \o Items(SubSeq(p, 2, Len(p)))
    ELSE IF p[1] <= 183
         THEN LET n == p[1] - 128
              IN  IF 1 + n > Len(p) THEN <<>>
                  ELSE <<SubSeq(p, 2, 1 + n)>> \o Items(SubSeq(p, 2 + n, Len(p)))
    ELSE IF p[1] <= 191
         THEN LET ll == p[1] - 183
                  n  == IF 1 + ll > Len(p) THEN Len(p) ELSE BEValue(SubSeq(p, 2, 1 + ll))
              IN  IF 1 + ll + n > Len(p) THEN <<>>
                  ELSE <<SubSeq(p, 2 + ll, 1 + ll + n)>> \o Items(SubSeq(p, 2 + ll + n, Len(p)))
    ELSE <<>>

Hashed(i) == ret[i] # NoHash

\* fields of one Go type, whose values can be exchanged
SameType ==
    { {"ParentHash", "UncleHash", "Root", "TxHash", "ReceiptHash", "MixDigest"},
      {"Difficulty", "Number"},
      {"GasLimit", "GasUsed", "Time"} }

(* ------------------------------- claims ------------------------------- *)

\* C1: Header.Hash is deterministic and side-effect-free.  A repeated call
\* on an unchanged header returns the value the earlier call returned, two
\* field-wise equal headers are given the same value, and a call of Hash
\* leaves every field of every header as it was.
C1_HashDeterministic ==
    [][ /\ \A i \in 1..2 :
              (h'[i] = h[i] /\ ret[i] # NoHash /\ ret'[i] # NoHash) => ret'[i] = ret[i]
        /\ (ret'[1] # NoHash /\ ret'[2] # NoHash /\ h'[1] = h'[2]) => ret'[1] = ret'[2]
        /\ (\E i \in 1..2 : ret[i] = NoHash /\ ret'[i] # NoHash) => h' = h ]_vars

\* C1 witness: both headers were hashed while field-wise equal
C1_Witness == Hashed(1) /\ Hashed(2) /\ h[1] = h[2] /\ ret[1] = ret[2]

\* C2: the encoding fed to the hasher is injective on the header shape.
\* Two hashed headers inside the legal range that differ in at least one
\* field value (two exchanged fields included) were encoded to different
\* byte sequences.
C2_EncodingInjective ==
    (Hashed(1) /\ Hashed(2) /\ Legal(h[1]) /\ Legal(h[2]) /\ h[1] # h[2])
        => ret[1].msg # ret[2].msg

\* C2 witness: the second header is the first with two distinct-valued
\* fields exchanged, and both were hashed
C2_Witness ==
    /\ Hashed(1) /\ Hashed(2) /\ Legal(h[1])
    /\ \E T \in SameType : \E f, g \in T :
          /\ h[1][f] # h[1][g]
          /\ h[2] = [h[1] EXCEPT ![f] = h[1][g], ![g] = h[1][f]]

\* C3: the bytes hashed for a header inside the legal range are exactly one
\* list of the 15 fields in the order parent, uncle, proposer, state root,
\* transactions root, receipts root, bloom, difficulty, number, gas limit,
\* gas used, timestamp, extra data, mix digest, nonce, and nothing else.
C3_FieldOrder ==
    \A i \in 1..2 :
        (Hashed(i) /\ Legal(h[i])) =>
            ret[i].msg = EncList(
                   EncString(h[i].ParentHash)
                \o EncString(h[i].UncleHash)
                \o EncString(h[i].Coinbase)
                \o EncString(h[i].Root)
                \o EncString(h[i].TxHash)
                \o EncString(h[i].ReceiptHash)
                \o EncString(h[i].Bloom)
                \o EncString(MinimalBE(h[i].Difficulty))
                \o EncString(MinimalBE(h[i].Number))
                \o EncString(MinimalBE(h[i].GasLimit))
                \o EncString(MinimalBE(h[i].GasUsed))
                \o EncString(MinimalBE(h[i].Time))
                \o EncString(h[i].Extra)
                \o EncString(h[i].MixDigest)
                \o EncString(h[i].RandomId))

\* C3 witness: a hashed legal header whose transactions root and receipts
\* root differ, so that their order shows in the bytes
C3_Witness ==
    \E i \in 1..2 : Hashed(i) /\ Legal(h[i]) /\ h[i].TxHash # h[i].ReceiptHash

\* C4: a header with a negative difficulty or number is never given a hash
\* value by Header.Hash, and two such headers with different field values
\* never hold the same identity.
C4_NegativeRejected ==
    /\ \A i \in 1..2 : ~Legal(h[i]) => ~Hashed(i)
    /\ (~Legal(h[1]) /\ ~Legal(h[2]) /\ h[1] # h[2] /\ Hashed(1) /\ Hashed(2))
           => ret[1] # ret[2]

\* C5: in the bytes hashed for a legal header the items of difficulty,
\* number, gas limit, gas used and timestamp are the big-endian bytes of the
\* value without a leading zero byte, and a zero value is the empty string.
C5_MinimalIntegers ==
    \A i \in 1..2 :
        (Hashed(i) /\ Legal(h[i])) =>
            LET it == Items(ListPayload(ret[i].msg))
                ints == <<h[i].Difficulty, h[i].Number, h[i].GasLimit,
                          h[i].GasUsed, h[i].Time>>
            IN  /\ Len(it) = 15
                /\ \A k \in 1..5 :
                      /\ BEValue(it[7 + k]) = ints[k]
                      /\ (ints[k] = 0 <=> it[7 + k] = <<>>)
                      /\ (it[7 + k] # <<>> => it[7 + k][1] # 0)

\* C5 witness: a hashed legal header with a zero integer field, a one-byte
\* one and a two-byte one
C5_Witness ==
    \E i \in 1..2 :
        /\ Hashed(i) /\ Legal(h[i])
        /\ h[i].GasLimit = 0 /\ h[i].GasUsed = 1 /\ h[i].Time = 256

\* C6: every value Header.Hash returns is 32 bytes long and is the digest of
\* the original Keccak-256 (padding byte 0x01), not of NIST SHA3-256
\* (padding byte 0x06).
C6_LegacyKeccak ==
    \A i \in 1..2 :
        Hashed(i) => (ret[i].len = 32 /\ ret[i].digestLen = 32 /\ ret[i].pad = 1)

\* C6 witness: a legal header was hashed over a non-empty encoding
C6_Witness == \E i \in 1..2 : Hashed(i) /\ Legal(h[i]) /\ ret[i].msg # <<>>

\* the values returned so far, as (caller, position) pairs
Returned == {ck \in Callers \X (1..MaxCalls + 1) : ck[2] <= Len(out[ck[1]])}

Result(ck) == out[ck[1]][ck[2]]

\* the GenMsgSeq calls that returned without an error
MsgOk == {ck \in Returned : Result(ck).fn = "GenMsgSeq" /\ Result(ck).err = "nil"}

\* the GenMsgSeq calls whose unique-id source delivered a UUID
MsgDelivered == {ck \in Returned : Result(ck).fn = "GenMsgSeq" /\ ~Result(ck).srcFailed}

\* what GenMsgSeq returns whenever the source delivers: no error, 16 bytes,
\* not the zero sequence, and a value no other such call returned
MsgSeqWhenSourceDelivers ==
    \A ck \in MsgDelivered :
        /\ Result(ck).err = "nil"
        /\ Len(Result(ck).b) = 16
        /\ Result(ck).b # Fill(16, 0)
        /\ \A dl \in MsgDelivered : dl # ck => Result(dl).b # Result(ck).b

\* C7: every call of GenMsgSeq that returns without an error returns exactly
\* 16 bytes, never the all-zero sequence, and no two such calls return the
\* same value.
C7_MsgSeqUnique ==
    \A ck \in MsgOk :
        /\ Len(Result(ck).b) = 16
        /\ Result(ck).b # Fill(16, 0)
        /\ \A dl \in MsgOk : dl # ck => Result(dl).b # Result(ck).b

\* C8: every call of GenZeroSeq returns 16 zero bytes and no error, whatever
\* calls of GenMsgSeq or GenZeroSeq came before it.
C8_ZeroSeq ==
    \A ck \in Returned :
        Result(ck).fn = "GenZeroSeq" =>
            (Result(ck).b = Fill(16, 0) /\ Result(ck).err = "nil")

\* C8 witness: GenZeroSeq returned after a call of GenMsgSeq and after an
\* earlier call of GenZeroSeq
C8_Witness ==
    \E c, d \in Callers :
        /\ Len(out[c]) = 2
        /\ out[c][1].fn = "GenMsgSeq" /\ out[c][2].fn = "GenZeroSeq"
        /\ Len(out[d]) = 2
        /\ out[d][1].fn = "GenZeroSeq" /\ out[d][2].fn = "GenZeroSeq"

\* C9: a call of GenMsgSeq in which the unique-id source failed ends by
\* returning an error to its caller, never a value without an error.
C9_FailureReported ==
    /\ \A c \in Callers : pc[c] # "panic"
    /\ \A ck \in Returned : Result(ck).srcFailed => Result(ck).err # "nil"

\* C10: under any interleaving of the callers' steps, no two calls of
\* GenMsgSeq made by different callers return the same sequence.
C10_ConcurrentDistinct ==
    \A ck, dl \in MsgOk : ck[1] # dl[1] => Result(ck).b # Result(dl).b

\* C11: the frame-type table maps plain call request to 0x12, heartbeat to
\* 0x13, application-messaging request to 0x30 and response to 0x31, topic
\* report to 0x32, topic multicast to 0x35, transaction-committed to 0x1000
\* and transaction-block-number to 0x1001; the eight tags are pairwise
\* distinct, the table has no other member, and every frame tagged with a
\* member carries that member's tag.
C11_FrameTypeTable ==
    /\ DOMAIN ChannelPack = {"TYPE_RPC", "TYPE_HEATBEAT", "TYPE_AMOP_REQ",
                             "TYPE_AMOP_RESP", "TYPE_TOPIC_REPORT",
                             "TYPE_TOPIC_MULTICAST", "TYPE_TX_COMMITTED",
                             "TYPE_TX_BLOCKNUM"}
    /\ \A k, l \in DOMAIN ChannelPack : k # l => ChannelPack[k] # ChannelPack[l]
    /\ \A n \in 1..Len(frames) :
          frames[n].op = "tag" =>
              frames[n].tag =
                  CASE frames[n].kind = "TYPE_RPC"             -> 18
                    [] frames[n].kind = "TYPE_HEATBEAT"        -> 19
                    [] frames[n].kind = "TYPE_AMOP_REQ"        -> 48
                    [] frames[n].kind = "TYPE_AMOP_RESP"       -> 49
                    [] frames[n].kind = "TYPE_TOPIC_REPORT"    -> 50
                    [] frames[n].kind = "TYPE_TOPIC_MULTICAST" -> 53
                    [] frames[n].kind = "TYPE_TX_COMMITTED"    -> 4096
                    [] frames[n].kind = "TYPE_TX_BLOCKNUM"     -> 4097
                    [] OTHER -> -1

\* C11 witness: frames were tagged as application-messaging response and as
\* transaction-block-number notification
C11_Witness ==
    /\ Len(frames) = 2
    /\ frames[1].op = "tag" /\ frames[1].kind = "TYPE_AMOP_RESP"
    /\ frames[2].op = "tag" /\ frames[2].kind = "TYPE_TX_BLOCKNUM"

C13_NonceRoundTrip ==
    /\ nPhase \in {"enc", "enc-dec"} =>
          /\ Len(nBytes) = 8
          /\ nBytes[1] = nInt[1] \div 256
          /\ nBytes[8] = nInt[4] % 256
          /\ \A m \in 1..4 : nBytes[2 * m - 1] * 256 + nBytes[2 * m] = nInt[m]
    /\ nPhase = "enc-dec" => nBack = nInt
    /\ nPhase = "dec-enc" => nBack = nBytes

\* C13 witness: an integer whose most and least significant bytes differ
\* went through EncodeNonce and back through Uint64
C13_Witness ==
    /\ nPhase = "enc-dec"
    /\ nInt = <<4660, 0, 255, 1>>
    /\ nBytes = <<18, 52, 0, 0, 0, 255, 0, 1>>

Made(c) == c.wrapper # ""

\* C14: every typed wrapper issues exactly one remote call, to the remote
\* method named after it ("get" followed by the wrapper's name), so two
\* differently named wrappers never dispatch to the same remote method.
C14_WrapperDispatch ==
    /\ \A c \in {lastCall, prevCall} :
          Made(c) => (Len(c.sent) = 1 /\ c.sent[1] = "get" \o c.wrapper)
    /\ (Made(lastCall) /\ Made(prevCall) /\ lastCall.wrapper # prevCall.wrapper)
          => lastCall.sent # prevCall.sent

\* C15: a get* helper has one of three outcomes, tried in this order: the
\* error of the remote call with an empty result; else NotFound with an
\* empty result when the reply has length 0; else the decoded reply, with an
\* error only if decoding failed.  A non-empty result never comes together
\* with an error.
C15_HelperOutcomes ==
    \A c \in {lastCall, prevCall} :
        Made(c) =>
            /\ c.callErr # "nil" => (c.err = c.callErr /\ c.res = "nil")
            /\ (c.callErr = "nil" /\ c.raw = "empty")
                  => (c.err = "NotFound" /\ c.res = "nil")
            /\ (c.callErr = "nil" /\ c.raw # "empty")
                  => /\ c.err \in {"nil", "decode error"}
                     /\ c.err # "nil" => c.raw = "bad"
            /\ ~(c.res # "nil" /\ c.err # "nil")

====
